---- MODULE Spec2Model ----
(***************************************************************************)
(* Model of the indexer: the checkpointed scraper (StateManager,           *)
(* PostScraper, TagScraper and the select! in main) and the inverted       *)
(* index (Index).                                                          *)
(***************************************************************************)
EXTENDS Integers, Sequences, FiniteSets, TLC

VARIABLES
    file,            \* content of state.json on disk
    phase,           \* position of main: "boot", "running", "aborted", "exited"
    state,           \* the ScrapeState behind StateManager's mutex
    loaded,          \* the ScrapeState as StateManager::new produced it (history)
    saves,           \* number of times save_state wrote state.json (history)
    winner,          \* the select! branch that completed first
    postPc,          \* position of PostScraper::run
    starting_id,     \* PostScraper::run's starting_id
    issued,          \* number of ranges pulled from the ranges iterator
    in_progress,     \* the queue of Buffered: requests in flight, oldest first
    current,         \* the (id_range, result) item process_response is working on
    postRequests,    \* every id range sent to query_posts_backoff, in order (history)
    postLog,         \* posts.json: post ids appended by this run, in order
    tagPc,           \* position of TagScraper::run
    after_id,        \* the state of the unfold in TagScraper::run
    tagResponse,     \* the response of the tag request being handled
    tagFailures,     \* failed attempts of the query_tags_backoff in progress
    tagRequests,     \* every after_id sent to query_tags_backoff, in order (history)
    tagLog,          \* tags.json: tag ids appended by this run, in order
    index,           \* the Index under construction
    ops,             \* number of insert operations applied to the index
    query,           \* the tags of the last get_images_all_tags_lazy call
    found,           \* what that call returned
    last,            \* the last insert applied to the index (history)
    call,            \* the last call made on the StateManager by itself (history)
    lock,            \* the holder of the Mutex around the ScrapeState, or "free"
    inside           \* per task, the StateManager method it holds the guard in

scraperVars == <<file, phase, state, loaded, saves, winner, postPc, starting_id,
                 issued, in_progress, current, postRequests, postLog,
                 tagPc, after_id, tagResponse, tagFailures, tagRequests, tagLog>>

indexVars == <<index, ops, query, found, last>>

vars == <<file, phase, state, loaded, saves, winner, postPc, starting_id,
          issued, in_progress, current, postRequests, postLog,
          tagPc, after_id, tagResponse, tagFailures, tagRequests, tagLog,
          index, ops, query, found,
          last, call, lock, inside>>

----------------------------------------------------------------------------
(* Bounds of the model *)

MaxWindows == 3

MaxTagRequests == 2

MaxOps == 4

\* attempts ExponentialBackoff::default() has time for before it gives up
MaxAttempts == 2

\* calls made on a StateManager taken by itself
MaxCalls == 3

----------------------------------------------------------------------------
(* Program constants *)

\* PostScraper::new, parallel_requests: 2
parallel_requests == 2

\* PostScraper::run, step_by(100) and start..start + 100
WindowSize == 100

----------------------------------------------------------------------------
(* Helpers *)

RECURSIVE Reverse(_)
Reverse(s) == IF s = <<>> THEN <<>> ELSE Append(Reverse(Tail(s)), Head(s))

Range(s) == {s[i] : i \in DOMAIN s}

MaxOf(S) == CHOOSE m \in S : \A x \in S : x <= m

\* highest_id as it would be if the page were taken to be in ascending order
highest_id_last(ids) == IF ids = <<>> THEN 0 ELSE ids[Len(ids)]

\* iter().max_by_key(|x| x.id).map(|x| x.id).unwrap_or(0)
highest_id(ids) == IF ids = <<>> THEN 0 ELSE MaxOf(Range(ids))

----------------------------------------------------------------------------
(* Checkpoint: ScrapeState, ScrapeError and StateManager *)

\* ScrapeError::Post(Range<u64>)
PostError(id_range) == <<"Post", id_range.start, id_range.end>>

\* ScrapeError::Tag(u64)
TagError(id) == <<"Tag", id>>

ScrapeState(p, t, e) == [last_post_id |-> p, last_tag_id |-> t, errors |-> e]

ZeroState == ScrapeState(0, 0, <<>>)

\* state.json as a run can find it: absent, not decodable, or a state saved
\* by an earlier run
MissingFile == [kind |-> "missing", state |-> ZeroState]

CorruptFile == [kind |-> "corrupt", state |-> ZeroState]

ValidFile(s) == [kind |-> "valid", state |-> s]

SavedStates ==
    { ZeroState,
      ScrapeState(250, 7, <<PostError([start |-> 101, end |-> 201])>>) }

FileStates == {MissingFile, CorruptFile} \cup {ValidFile(s) : s \in SavedStates}

\* StateManager::new as it would be if a failed File::open were returned as Err
StateManager_new_fatal(f) ==
    IF f.kind = "valid" THEN [ok |-> TRUE, state |-> f.state]
    ELSE [ok |-> FALSE, state |-> ZeroState]

\* StateManager::new: File::open fails -> zero state; from_reader fails -> Err
StateManager_new(f) ==
    CASE f.kind = "missing" -> [ok |-> TRUE,  state |-> ZeroState]
      [] f.kind = "corrupt" -> [ok |-> FALSE, state |-> ZeroState]
      [] OTHER              -> [ok |-> TRUE,  state |-> f.state]

\* update_last_post_id as it would be if it only ever advanced the cursor
update_last_post_id_advance(s, id) ==
    [s EXCEPT !.last_post_id = IF id < @ THEN @ ELSE id]

update_last_post_id(s, id) == [s EXCEPT !.last_post_id = id]

update_last_tag_id(s, id) == [s EXCEPT !.last_tag_id = id]

\* append_error as it would be if it kept only the latest error
append_error_latest(s, e) == [s EXCEPT !.errors = <<e>>]

append_error(s, e) == [s EXCEPT !.errors = Append(@, e)]

\* the StateManager taken by itself: what was called, with what, and the
\* number of calls so far
NoCall == [op |-> "none", value |-> 0, n |-> 0]

CursorValues == {0, 7, 250, 300}

ErrorValues == {PostError([start |-> 1, end |-> 101]), TagError(7)}

\* the three futures of main's select! that call the StateManager
Tasks == {"post", "tag", "main"}

\* a task that is in no StateManager method
Idle == [op |-> "none", value |-> 0]

lockVars == <<lock, inside>>

\* save_state as it would be if it wrote the state as loaded
save_state_stale(s) == ValidFile(loaded)

\* save_state: File::create + to_writer of the locked state
save_state(s) == ValidFile(s)

----------------------------------------------------------------------------
(* The remote: what one request can come back with once the retry layer   *)
(* has returned                                                            *)

Pending == [tag |-> "Pending", count |-> 0, posts |-> <<>>]

Failed == [tag |-> "Err", count |-> 0, posts |-> <<>>]

OkPage(ids) == [tag |-> "Ok", count |-> Len(ids), posts |-> ids]

\* pages of the window id:>=start id:<end, newest post first: no post in the
\* window, or two of them
PostPages(id_range) ==
    { OkPage(<<>>), OkPage(<<id_range.start + 40, id_range.start>>) }

TagPending == [tag |-> "Pending", tags |-> <<>>]

TagFailed == [tag |-> "Err", tags |-> <<>>]

OkTagPage(ids) == [tag |-> "Ok", tags |-> ids]

\* pages of after_id = a, order asc by id; the page past the last tag is empty
TagPages(a) == { OkTagPage(<<>>), OkTagPage(<<a + 1, a + 3>>) }

----------------------------------------------------------------------------
(* Index *)

\* u32::MAX, the frequency of a tag that has no tag_id_freq entry; written as
\* the largest integer TLC represents, which like u32::MAX is above every
\* frequency a bitmap of u32 ids can have in the model
U32Max == 2147483647

\* `as u32`: the ids of the model are below 2^32, where the cast keeps the value
AsU32(x) == IF x <= U32Max THEN x ELSE x - U32Max - 1

\* HashMap::insert and HashMap::get
Put(m, k, v) == [x \in DOMAIN m \cup {k} |-> IF x = k THEN v ELSE m[x]]

Get(m, k, default) == IF k \in DOMAIN m THEN m[k] ELSE default

\* Index::default()
EmptyIndex ==
    [tag_str_to_id |-> <<>>, tag_id_to_post_id |-> <<>>,
     post_id_to_post |-> <<>>, tag_id_freq |-> <<>>]

\* tag names as the logs and the queries spell them
Names == {"cat", "Cat", "dog"}

QueryNames == Names \cup {"owl"}

TagIds == {1, 2}

PostIds == {1, 2}

\* str::to_lowercase
to_lowercase(name) == IF name = "Cat" THEN "cat" ELSE name

\* the tag lists a post can carry
TagLists ==
    { <<>>, <<"cat">>, <<"dog">>, <<"cat", "dog">>, <<"Cat", "dog">>, <<"cat", "Cat">> }

\* the tag lists a query can ask for
Queries ==
    {<<>>} \cup {<<a>> : a \in QueryNames}
           \cup {<<a, b>> : a \in QueryNames, b \in QueryNames}

\* the inserts as `last` records them; again: the insert repeats the one before
NoInsert == [op |-> "none", id |-> 0, name |-> "", tags |-> <<>>, again |-> FALSE]

TagInsert(tag) ==
    [op |-> "tag", id |-> tag.id, name |-> tag.name, tags |-> <<>>,
     again |-> last.op = "tag" /\ last.id = tag.id /\ last.name = tag.name]

PostInsert(post) ==
    [op |-> "post", id |-> post.id, name |-> "", tags |-> post.tags,
     again |-> last.op = "post" /\ last.id = post.id /\ last.tags = post.tags]

\* PostSimplified::from(post)
PostSimplified(post) == [id |-> AsU32(post.id)]

\* Index::insert_tag
insert_tag(idx, tag) ==
    [idx EXCEPT !.tag_str_to_id = Put(@, to_lowercase(tag.name), AsU32(tag.id))]

\* insert_post_tags as it would be if the frequency were counted on every insert
RECURSIVE insert_post_tags_always_count(_, _, _)
insert_post_tags_always_count(idx, post_id, tags) ==
    IF tags = <<>> THEN idx
    ELSE LET tag == to_lowercase(Head(tags)) IN
         IF tag \notin DOMAIN idx.tag_str_to_id
         THEN insert_post_tags_always_count(idx, post_id, Tail(tags))
         ELSE LET tag_id == idx.tag_str_to_id[tag]
                  bitmap == Get(idx.tag_id_to_post_id, tag_id, {})
                  next ==
                      [idx EXCEPT
                         !.tag_id_to_post_id = Put(@, tag_id, bitmap \cup {AsU32(post_id)}),
                         !.tag_id_freq = Put(@, tag_id, Get(@, tag_id, 0) + 1)]
              IN insert_post_tags_always_count(next, post_id, Tail(tags))

\* insert_post_tags as it would be if the post's tag names were looked up as spelt
RECURSIVE insert_post_tags_case_sensitive(_, _, _)
insert_post_tags_case_sensitive(idx, post_id, tags) ==
    IF tags = <<>> THEN idx
    ELSE LET tag == Head(tags) IN
         IF tag \notin DOMAIN idx.tag_str_to_id
         THEN insert_post_tags_case_sensitive(idx, post_id, Tail(tags))
         ELSE LET tag_id == idx.tag_str_to_id[tag]
                  bitmap == Get(idx.tag_id_to_post_id, tag_id, {})
                  inserted == AsU32(post_id) \notin bitmap
                  next ==
                      [idx EXCEPT
                         !.tag_id_to_post_id = Put(@, tag_id, bitmap \cup {AsU32(post_id)}),
                         !.tag_id_freq = IF inserted
                                         THEN Put(@, tag_id, Get(@, tag_id, 0) + 1)
                                         ELSE @]
              IN insert_post_tags_case_sensitive(next, post_id, Tail(tags))

\* the loop of Index::insert_post over post.split_tags()
RECURSIVE insert_post_tags(_, _, _)
insert_post_tags(idx, post_id, tags) ==
    IF tags = <<>> THEN idx
    ELSE LET tag == to_lowercase(Head(tags)) IN
         IF tag \notin DOMAIN idx.tag_str_to_id
         THEN insert_post_tags(idx, post_id, Tail(tags))
         ELSE LET tag_id == idx.tag_str_to_id[tag]
                  bitmap == Get(idx.tag_id_to_post_id, tag_id, {})
                  inserted == AsU32(post_id) \notin bitmap
                  next ==
                      [idx EXCEPT
                         !.tag_id_to_post_id = Put(@, tag_id, bitmap \cup {AsU32(post_id)}),
                         !.tag_id_freq = IF inserted
                                         THEN Put(@, tag_id, Get(@, tag_id, 0) + 1)
                                         ELSE @]
              IN insert_post_tags(next, post_id, Tail(tags))

\* insert_post as it would be without the post_id_to_post.insert
insert_post_no_summary(idx, post) == insert_post_tags(idx, post.id, post.tags)

\* Index::insert_post
insert_post(idx, post) ==
    [insert_post_tags(idx, post.id, post.tags) EXCEPT
       !.post_id_to_post = Put(@, AsU32(post.id), PostSimplified(post))]

\* the filter_map of get_images_all_tags_lazy: (tag_id, frequency) of each tag
\* found in tag_str_to_id
RECURSIVE tag_data(_, _)
tag_data(idx, tags) ==
    IF tags = <<>> THEN <<>>
    ELSE IF Head(tags) \in DOMAIN idx.tag_str_to_id
         THEN LET tag_id == idx.tag_str_to_id[Head(tags)] IN
              <<[tag_id |-> tag_id, freq |-> Get(idx.tag_id_freq, tag_id, U32Max)]>>
                  \o tag_data(idx, Tail(tags))
         ELSE tag_data(idx, Tail(tags))

\* tag_data.sort_by_key(|(_, freq)| *freq), a stable sort
RECURSIVE sort_by_key(_)
sort_by_key(s) ==
    IF s = <<>> THEN <<>>
    ELSE LET t == sort_by_key(SubSeq(s, 1, Len(s) - 1))
             x == s[Len(s)]
             n == Cardinality({i \in DOMAIN t : t[i].freq <= x.freq})
         IN SubSeq(t, 1, n) \o <<x>> \o SubSeq(t, n + 1, Len(t))

None == [some |-> FALSE, posts |-> <<>>]

Some(posts) == [some |-> TRUE, posts |-> posts]

\* RoaringBitmap::into_iter: ascending ids
RECURSIVE into_iter(_)
into_iter(S) ==
    IF S = {} THEN <<>>
    ELSE LET m == CHOOSE x \in S : \A y \in S : x <= y IN <<m>> \o into_iter(S \ {m})

\* filter_map(|id| self.post_id_to_post.get(&id).cloned())
RECURSIVE summaries(_, _)
summaries(idx, ids) ==
    IF ids = <<>> THEN <<>>
    ELSE IF Head(ids) \in DOMAIN idx.post_id_to_post
         THEN <<idx.post_id_to_post[Head(ids)]>> \o summaries(idx, Tail(ids))
         ELSE summaries(idx, Tail(ids))

\* intersect as it would be if a tag without a bitmap were passed over
RECURSIVE intersect_skip_missing(_, _, _)
intersect_skip_missing(idx, result, rest) ==
    IF rest = <<>> THEN Some(summaries(idx, into_iter(result)))
    ELSE IF Head(rest).tag_id \notin DOMAIN idx.tag_id_to_post_id
         THEN intersect_skip_missing(idx, result, Tail(rest))
    ELSE LET r == result \cap idx.tag_id_to_post_id[Head(rest).tag_id] IN
         IF r = {} THEN None ELSE intersect_skip_missing(idx, r, Tail(rest))

\* the for loop of get_images_all_tags_lazy over the remaining tags
RECURSIVE intersect(_, _, _)
intersect(idx, result, rest) ==
    IF rest = <<>> THEN Some(summaries(idx, into_iter(result)))
    ELSE IF Head(rest).tag_id \notin DOMAIN idx.tag_id_to_post_id THEN None
    ELSE LET r == result \cap idx.tag_id_to_post_id[Head(rest).tag_id] IN
         IF r = {} THEN None ELSE intersect(idx, r, Tail(rest))

\* Index::get_images_all_tags_lazy
get_images_all_tags_lazy(idx, tags) ==
    LET sorted == sort_by_key(tag_data(idx, tags)) IN
    IF sorted = <<>> THEN None
    ELSE IF Head(sorted).tag_id \notin DOMAIN idx.tag_id_to_post_id THEN None
    ELSE intersect(idx, idx.tag_id_to_post_id[Head(sorted).tag_id], Tail(sorted))

----------------------------------------------------------------------------
(* main *)

Init ==
    /\ file \in FileStates
    /\ phase = "boot"
    /\ state = ZeroState
    /\ loaded = ZeroState
    /\ saves = 0
    /\ winner = "none"
    /\ postPc = "init"
    /\ starting_id = 0
    /\ issued = 0
    /\ in_progress = <<>>
    /\ current = [id_range |-> [start |-> 0, end |-> 0], result |-> Pending, failures |-> 0]
    /\ postRequests = <<>>
    /\ postLog = <<>>
    /\ tagPc = "init"
    /\ after_id = 0
    /\ tagResponse = TagPending
    /\ tagFailures = 0
    /\ tagRequests = <<>>
    /\ tagLog = <<>>
    /\ index = EmptyIndex
    /\ ops = 0
    /\ query = <<>>
    /\ found = None
    /\ last = NoInsert
    /\ call = NoCall
    /\ lock = "free"
    /\ inside = [p \in Tasks |-> Idle]

postVars == <<postPc, starting_id, issued, in_progress, current, postRequests, postLog>>

tagVars == <<tagPc, after_id, tagResponse, tagFailures, tagRequests, tagLog>>

mainVars == <<file, phase, loaded, saves, winner>>

\* main: StateManager::new("state.json").expect("Failed to load state file")
Load ==
    /\ phase = "boot"
    /\ LET r == StateManager_new(file) IN
         IF r.ok
         THEN /\ state' = r.state
              /\ loaded' = r.state
              /\ phase' = "running"
         ELSE /\ phase' = "aborted"
              /\ UNCHANGED <<state, loaded>>
    /\ UNCHANGED <<file, saves, winner>>
    /\ UNCHANGED postVars
    /\ UNCHANGED tagVars
    /\ UNCHANGED <<indexVars, call, lockVars>>

----------------------------------------------------------------------------
(* ApiClient: the retry of query_posts_backoff and query_tags_backoff *)

\* how one attempt of query_posts / query_tags can fail: send() (transport) or
\* json() (decode)
ErrorClasses == {"transport", "decode"}

\* retry as it would be if a decode failure were a backoff::Error::Permanent
retry_permanent_decode(class, failures) ==
    IF class = "decode" \/ failures + 1 >= MaxAttempts THEN "give_up" ELSE "retry"

\* backoff::future::retry around Ok(self.query_..(..).await?): the `?` makes
\* every ApiError transient, so a failed attempt is repeated until the backoff
\* policy has run out
retry(class, failures) ==
    IF failures + 1 >= MaxAttempts THEN "give_up" ELSE "retry"

----------------------------------------------------------------------------
(* PostScraper *)

\* ranges as it would be without step_by(100)
ranges_no_step(first, k) == [start |-> first + k, end |-> first + k + WindowSize]

\* the ranges iterator: (starting_id..).step_by(100).map(|start| start..start + 100)
ranges(first, k) ==
    [start |-> first + k * WindowSize, end |-> first + k * WindowSize + WindowSize]

\* ranges_has_next as it would be if the ranges ended, as starting_id..end does
ranges_has_next_finite(k) == k < MaxWindows

\* whether the ranges iterator has a range after the k it has produced:
\* (starting_id..) is a RangeFrom, which has no end
ranges_has_next(k) == TRUE

\* what the remote can answer to a post request once query_posts_backoff returns
PostOutcomes(id_range) == PostPages(id_range) \cup {Failed}

\* Deliverable as it would be with buffer_unordered(parallel_requests)
Deliverable_unordered(q) == {i \in DOMAIN q : q[i].result # Pending}

\* .buffered(parallel_requests): the positions of in_progress whose output the
\* stream may yield next; outputs are yielded in the order of the ranges
Deliverable(q) == IF q # <<>> /\ q[1].result # Pending THEN {1} ELSE {}

RemoveAt(q, i) == [j \in 1..(Len(q) - 1) |-> IF j < i THEN q[j] ELSE q[j + 1]]

\* process_response as it would be if a failed window moved the cursor past it
process_response_skip_failed(s, id_range, result) ==
    IF result.tag = "Ok"
    THEN IF result.count = 0
         THEN s
         ELSE update_last_post_id(s, highest_id(result.posts))
    ELSE update_last_post_id(append_error(s, PostError(id_range)), id_range.end - 1)

\* process_response as it would be if an empty window moved the cursor past it
process_response_skip_empty(s, id_range, result) ==
    IF result.tag = "Ok"
    THEN IF result.count = 0
         THEN update_last_post_id(s, id_range.end - 1)
         ELSE update_last_post_id(s, highest_id(result.posts))
    ELSE append_error(s, PostError(id_range))

\* the effect of process_response on the ScrapeState
process_response(s, id_range, result) ==
    IF result.tag = "Ok"
    THEN IF result.count = 0
         THEN s
         ELSE update_last_post_id(s, highest_id(result.posts))
    ELSE append_error(s, PostError(id_range))

\* process_posts as it would be without the rev()
process_posts_in_order(log, posts) == log \o posts

\* process_post for every post of the page, in rev() order
process_posts(log, posts) == log \o Reverse(posts)

\* run: let starting_id = self.state_manager.last_post_id().await + 1
PostStart ==
    /\ phase = "running"
    /\ postPc = "init"
    /\ starting_id' = state.last_post_id + 1
    /\ postPc' = "poll"
    /\ UNCHANGED <<issued, in_progress, current, postRequests, postLog>>
    /\ UNCHANGED <<state, mainVars, tagVars, indexVars, call, lockVars>>

\* PostIssue as it would be if the stream pulled ranges without a bound on
\* the requests in flight
PostIssue_unbounded ==
    /\ phase = "running"
    /\ postPc = "poll"
    /\ issued < MaxWindows
    /\ LET id_range == ranges(starting_id, issued) IN
         /\ in_progress' = Append(in_progress,
                               [id_range |-> id_range, result |-> Pending, failures |-> 0])
         /\ postRequests' = Append(postRequests, id_range)
    /\ issued' = issued + 1
    /\ UNCHANGED <<postPc, starting_id, current, postLog>>
    /\ UNCHANGED <<state, mainVars, tagVars, indexVars, call, lockVars>>

\* Buffered pulls the next range and starts its query_posts_backoff
PostIssue ==
    /\ phase = "running"
    /\ postPc = "poll"
    /\ Len(in_progress) < parallel_requests
    /\ ranges_has_next(issued)
    /\ issued < MaxWindows
    /\ LET id_range == ranges(starting_id, issued) IN
         /\ in_progress' = Append(in_progress,
                               [id_range |-> id_range, result |-> Pending, failures |-> 0])
         /\ postRequests' = Append(postRequests, id_range)
    /\ issued' = issued + 1
    /\ UNCHANGED <<postPc, starting_id, current, postLog>>
    /\ UNCHANGED <<state, mainVars, tagVars, indexVars, call, lockVars>>

\* one attempt of the query_posts_backoff of a request in flight ends: with a
\* page, which is returned, or with an error, which is retried or, once the
\* backoff has run out, returned
PostComplete ==
    /\ phase = "running"
    /\ \E i \in DOMAIN in_progress :
         /\ in_progress[i].result = Pending
         /\ \/ \E r \in PostPages(in_progress[i].id_range) :
                  in_progress' = [in_progress EXCEPT ![i].result = r, ![i].failures = 0]
            \/ \E class \in ErrorClasses :
                  IF retry(class, in_progress[i].failures) = "retry"
                  THEN in_progress' = [in_progress EXCEPT ![i].failures = @ + 1]
                  ELSE in_progress' =
                           [in_progress EXCEPT ![i].result = Failed, ![i].failures = 0]
    /\ UNCHANGED <<postPc, starting_id, issued, current, postRequests, postLog>>
    /\ UNCHANGED <<state, mainVars, tagVars, indexVars, call, lockVars>>

\* for_each takes the next (id_range, result) and process_response runs up to
\* the output lock
PostProcess ==
    /\ phase = "running"
    /\ postPc = "poll"
    /\ Len(in_progress) = parallel_requests \/ issued = MaxWindows
    /\ \E i \in Deliverable(in_progress) :
         LET item == in_progress[i] IN
           /\ current' = item
           /\ in_progress' = RemoveAt(in_progress, i)
           /\ state' = process_response(state, item.id_range, item.result)
           /\ postPc' = IF item.result.tag = "Ok" /\ item.result.count # 0
                        THEN "write" ELSE "poll"
    /\ UNCHANGED <<starting_id, issued, postRequests, postLog>>
    /\ UNCHANGED <<mainVars, tagVars, indexVars, call, lockVars>>

\* process_response: the page's posts go to the output, last one first
PostWrite ==
    /\ phase = "running"
    /\ postPc = "write"
    /\ postLog' = process_posts(postLog, current.result.posts)
    /\ postPc' = "poll"
    /\ UNCHANGED <<starting_id, issued, in_progress, current, postRequests>>
    /\ UNCHANGED <<state, mainVars, tagVars, indexVars, call, lockVars>>

----------------------------------------------------------------------------
(* TagScraper *)

\* what the remote can answer to a tag request once query_tags_backoff returns
TagOutcomes(a) == TagPages(a) \cup {TagFailed}

\* tag_response as it would be if the streams shared one cursor
tag_response_shared_cursor(s, a, response) ==
    IF response.tag = "Ok"
    THEN update_last_post_id(update_last_tag_id(s, highest_id(response.tags)),
                             highest_id(response.tags))
    ELSE append_error(s, TagError(a))

\* the effect of one turn of the unfold closure on the ScrapeState
tag_response(s, a, response) ==
    IF response.tag = "Ok"
    THEN update_last_tag_id(s, highest_id(response.tags))
    ELSE append_error(s, TagError(a))

\* process_tag for every tag of the page, in rev() order
process_tags(log, tags) == log \o Reverse(tags)

\* run: let after_id = self.state_manager.last_tag_id().await
TagStart ==
    /\ phase = "running"
    /\ tagPc = "init"
    /\ after_id' = state.last_tag_id
    /\ tagPc' = "limiter"
    /\ UNCHANGED <<tagResponse, tagFailures, tagRequests, tagLog>>
    /\ UNCHANGED <<state, mainVars, postVars, indexVars, call, lockVars>>

\* limiter.until_ready().await
TagUntilReady ==
    /\ phase = "running"
    /\ tagPc = "limiter"
    /\ Len(tagRequests) < MaxTagRequests
    /\ tagPc' = "request"
    /\ UNCHANGED <<after_id, tagResponse, tagFailures, tagRequests, tagLog>>
    /\ UNCHANGED <<state, mainVars, postVars, indexVars, call, lockVars>>

\* self.client.query_tags_backoff(after_id) is started
TagRequest ==
    /\ phase = "running"
    /\ tagPc = "request"
    /\ tagRequests' = Append(tagRequests, after_id)
    /\ tagResponse' = TagPending
    /\ tagFailures' = 0
    /\ tagPc' = "wait"
    /\ UNCHANGED <<after_id, tagLog>>
    /\ UNCHANGED <<state, mainVars, postVars, indexVars, call, lockVars>>

\* one attempt of query_tags_backoff ends: with a page, which is returned, or
\* with an error, which is retried or, once the backoff has run out, returned
TagComplete ==
    /\ phase = "running"
    /\ tagPc = "wait"
    /\ tagResponse = TagPending
    /\ \/ \E r \in TagPages(after_id) : tagResponse' = r /\ tagFailures' = 0
       \/ \E class \in ErrorClasses :
             IF retry(class, tagFailures) = "retry"
             THEN tagResponse' = tagResponse /\ tagFailures' = tagFailures + 1
             ELSE tagResponse' = TagFailed /\ tagFailures' = 0
    /\ UNCHANGED <<tagPc, after_id, tagRequests, tagLog>>
    /\ UNCHANGED <<state, mainVars, postVars, indexVars, call, lockVars>>

\* TagProcess as it would be if a failed page were skipped like a failed window
TagProcess_continue ==
    /\ phase = "running"
    /\ tagPc = "wait"
    /\ tagResponse # TagPending
    /\ state' = tag_response(state, after_id, tagResponse)
    /\ tagPc' = IF tagResponse.tag = "Ok" THEN "write" ELSE "limiter"
    /\ UNCHANGED <<after_id, tagResponse, tagFailures, tagRequests, tagLog>>
    /\ UNCHANGED <<mainVars, postVars, indexVars, call, lockVars>>

\* the match on the response, up to the output lock (Ok) or to None (Err)
TagProcess ==
    /\ phase = "running"
    /\ tagPc = "wait"
    /\ tagResponse # TagPending
    /\ state' = tag_response(state, after_id, tagResponse)
    /\ tagPc' = IF tagResponse.tag = "Ok" THEN "write" ELSE "ended"
    /\ UNCHANGED <<after_id, tagResponse, tagFailures, tagRequests, tagLog>>
    /\ UNCHANGED <<mainVars, postVars, indexVars, call, lockVars>>

\* the page's tags go to the output, last one first; Some(((), highest_id))
TagWrite ==
    /\ phase = "running"
    /\ tagPc = "write"
    /\ tagLog' = process_tags(tagLog, tagResponse.tags)
    /\ after_id' = highest_id(tagResponse.tags)
    /\ tagPc' = "limiter"
    /\ UNCHANGED <<tagResponse, tagFailures, tagRequests>>
    /\ UNCHANGED <<state, mainVars, postVars, indexVars, call, lockVars>>

----------------------------------------------------------------------------
(* main: tokio::select! over the three tasks *)

\* stream_ended as it would be if only the end of the post stream counted
stream_ended_post_only(t) ==
    t = "post" /\ postPc = "poll" /\ in_progress = <<>> /\ ~ ranges_has_next(issued)

\* run of a scraper returns: posts.for_each(..).await is over once the stream
\* of windows has ended and emptied, tags.count().await once the unfold
\* returned None
stream_ended(t) ==
    IF t = "post"
    THEN postPc = "poll" /\ in_progress = <<>> /\ ~ ranges_has_next(issued)
    ELSE tagPc = "ended"

\* the first two arms of the select!: one of the scraper tasks completes,
\* _ = post_scraper_task => save_state, _ = tag_scraper_task => save_state
Finished ==
    /\ phase = "running"
    /\ \E t \in {"post", "tag"} :
         /\ stream_ended(t)
         /\ winner' = t
    /\ file' = save_state(state)
    /\ saves' = saves + 1
    /\ phase' = "exited"
    /\ UNCHANGED <<state, loaded, postVars, tagVars, indexVars, call, lockVars>>

\* _ = tag_scraper_task => state_manager.save_state("state.json").await?
TagFinished == Finished /\ winner' = "tag"

\* _ = ctrl_c_task => state_manager.save_state("state.json").await?
CtrlC ==
    /\ phase = "running"
    /\ file' = save_state(state)
    /\ saves' = saves + 1
    /\ winner' = "ctrl_c"
    /\ phase' = "exited"
    /\ UNCHANGED <<state, loaded, postVars, tagVars, indexVars, call, lockVars>>

----------------------------------------------------------------------------
(* Building and querying the index *)

InsertTag ==
    /\ ops < MaxOps
    /\ \E id \in TagIds, name \in Names :
         /\ index' = insert_tag(index, [id |-> id, name |-> name])
         /\ last' = TagInsert([id |-> id, name |-> name])
    /\ ops' = ops + 1
    /\ UNCHANGED <<query, found, scraperVars, call, lockVars>>

InsertPost ==
    /\ ops < MaxOps
    /\ \E id \in PostIds, tags \in TagLists :
         /\ index' = insert_post(index, [id |-> id, tags |-> tags])
         /\ last' = PostInsert([id |-> id, tags |-> tags])
    /\ ops' = ops + 1
    /\ UNCHANGED <<query, found, scraperVars, call, lockVars>>

Search ==
    /\ \E tags \in Queries :
         /\ query' = tags
         /\ found' = get_images_all_tags_lazy(index, tags)
    /\ UNCHANGED <<index, ops, last, scraperVars, call, lockVars>>

InitIndex ==
    /\ file = MissingFile
    /\ phase = "boot"
    /\ state = ZeroState
    /\ loaded = ZeroState
    /\ saves = 0
    /\ winner = "none"
    /\ postPc = "init"
    /\ starting_id = 0
    /\ issued = 0
    /\ in_progress = <<>>
    /\ current = [id_range |-> [start |-> 0, end |-> 0], result |-> Pending, failures |-> 0]
    /\ postRequests = <<>>
    /\ postLog = <<>>
    /\ tagPc = "init"
    /\ after_id = 0
    /\ tagResponse = TagPending
    /\ tagFailures = 0
    /\ tagRequests = <<>>
    /\ tagLog = <<>>
    /\ index = EmptyIndex
    /\ ops = 0
    /\ query = <<>>
    /\ found = None
    /\ last = NoInsert
    /\ call = NoCall
    /\ lock = "free"
    /\ inside = [p \in Tasks |-> Idle]

\* a StateManager holding a loaded checkpoint, called by itself
InitStore ==
    /\ state \in SavedStates
    /\ loaded = state
    /\ file = ValidFile(state)
    /\ phase = "running"
    /\ saves = 0
    /\ winner = "none"
    /\ postPc = "init"
    /\ starting_id = 0
    /\ issued = 0
    /\ in_progress = <<>>
    /\ current = [id_range |-> [start |-> 0, end |-> 0], result |-> Pending, failures |-> 0]
    /\ postRequests = <<>>
    /\ postLog = <<>>
    /\ tagPc = "init"
    /\ after_id = 0
    /\ tagResponse = TagPending
    /\ tagFailures = 0
    /\ tagRequests = <<>>
    /\ tagLog = <<>>
    /\ index = EmptyIndex
    /\ ops = 0
    /\ query = <<>>
    /\ found = None
    /\ last = NoInsert
    /\ call = NoCall
    /\ lock = "free"
    /\ inside = [p \in Tasks |-> Idle]

\* StateManager::update_last_post_id(id)
StoreUpdatePost ==
    /\ call.n < MaxCalls
    /\ \E id \in CursorValues :
         /\ state' = update_last_post_id(state, id)
         /\ call' = [op |-> "update_last_post_id", value |-> id, n |-> call.n + 1]
    /\ UNCHANGED <<mainVars, postVars, tagVars, indexVars, lockVars>>

\* StateManager::update_last_tag_id(id)
StoreUpdateTag ==
    /\ call.n < MaxCalls
    /\ \E id \in CursorValues :
         /\ state' = update_last_tag_id(state, id)
         /\ call' = [op |-> "update_last_tag_id", value |-> id, n |-> call.n + 1]
    /\ UNCHANGED <<mainVars, postVars, tagVars, indexVars, lockVars>>

\* StateManager::append_error(error)
StoreAppendError ==
    /\ call.n < MaxCalls
    /\ \E e \in ErrorValues :
         /\ state' = append_error(state, e)
         /\ call' = [op |-> "append_error", value |-> 0, n |-> call.n + 1]
    /\ UNCHANGED <<mainVars, postVars, tagVars, indexVars, lockVars>>

NextStore == StoreUpdatePost \/ StoreUpdateTag \/ StoreAppendError

SpecStore == InitStore /\ [][NextStore]_vars

\* the StateManager methods a task calls, with their argument
Methods(p) ==
    CASE p = "post" ->
             {[op |-> "last_post_id", value |-> 0], [op |-> "append_error", value |-> 0]}
                 \cup {[op |-> "update_last_post_id", value |-> id] : id \in CursorValues}
      [] p = "tag" ->
             {[op |-> "last_tag_id", value |-> 0], [op |-> "append_error", value |-> 0]}
                 \cup {[op |-> "update_last_tag_id", value |-> id] : id \in CursorValues}
      [] OTHER -> {[op |-> "save_state", value |-> 0]}

\* the ScrapeError a task appends
ErrorOf(p) ==
    IF p = "post" THEN PostError([start |-> 1, end |-> 101]) ELSE TagError(7)

\* the body of a StateManager method, run with the guard held
method_body(s, p, m) ==
    CASE m.op = "update_last_post_id" -> update_last_post_id(s, m.value)
      [] m.op = "update_last_tag_id"  -> update_last_tag_id(s, m.value)
      [] m.op = "append_error"        -> append_error(s, ErrorOf(p))
      [] OTHER                        -> s

\* LockAcquire as it would be if the state were shared without the Mutex
LockAcquire_no_mutex ==
    /\ phase = "running"
    /\ call.n + Cardinality({p \in Tasks : inside[p].op # "none"}) < MaxCalls
    /\ \E p \in Tasks :
         /\ inside[p].op = "none"
         /\ \E m \in Methods(p) : inside' = [inside EXCEPT ![p] = m]
         /\ lock' = p
    /\ UNCHANGED <<state, call, mainVars, postVars, tagVars, indexVars>>

\* self.state.lock().await in a StateManager method: the task gets the guard
\* once no other task holds it
LockAcquire ==
    /\ phase = "running"
    /\ call.n + Cardinality({p \in Tasks : inside[p].op # "none"}) < MaxCalls
    /\ lock = "free"
    /\ \E p \in Tasks :
         /\ inside[p].op = "none"
         /\ \E m \in Methods(p) : inside' = [inside EXCEPT ![p] = m]
         /\ lock' = p
    /\ UNCHANGED <<state, call, mainVars, postVars, tagVars, indexVars>>

\* the rest of the method: its body, then the guard is dropped
LockRelease ==
    /\ \E p \in Tasks :
         /\ inside[p].op # "none"
         /\ state' = method_body(state, p, inside[p])
         /\ call' = [op |-> inside[p].op, value |-> inside[p].value, n |-> call.n + 1]
         /\ IF inside[p].op = "save_state"
            THEN /\ file' = save_state(state)
                 /\ saves' = saves + 1
                 /\ phase' = "exited"
            ELSE UNCHANGED <<file, saves, phase>>
         /\ inside' = [inside EXCEPT ![p] = Idle]
         /\ lock' = IF lock = p THEN "free" ELSE lock
    /\ UNCHANGED <<loaded, winner, postVars, tagVars, indexVars>>

NextLock == LockAcquire \/ LockRelease

\* the three tasks calling a StateManager that holds a loaded checkpoint
SpecLock == InitStore /\ [][NextLock]_vars

NextIndex == InsertTag \/ InsertPost \/ Search

SpecIndex == InitIndex /\ [][NextIndex]_vars

Next ==
    \/ Load
    \/ PostStart
    \/ PostIssue
    \/ PostComplete
    \/ PostProcess
    \/ PostWrite
    \/ TagStart
    \/ TagUntilReady
    \/ TagRequest
    \/ TagComplete
    \/ TagProcess
    \/ TagWrite
    \/ Finished
    \/ CtrlC

Spec == Init /\ [][Next]_vars

----------------------------------------------------------------------------
(* Properties *)

\* the step hands a completed window to process_response
PostDelivered == Len(in_progress') < Len(in_progress)

\* the step is the save of a select! branch
Saved == phase = "running" /\ phase' = "exited"

IsMax(m, ids) == m \in Range(ids) /\ \A x \in Range(ids) : x <= m

\* C1: the k-th window requested is [C+1+100k, C+1+100(k+1)) where C is the
\* last_post_id of the loaded checkpoint, so every window starts at C+1 or
\* later and the windows are contiguous, disjoint and of size 100
C1_Resumability ==
    \A k \in DOMAIN postRequests :
        /\ postRequests[k].start = loaded.last_post_id + 1 + 100 * (k - 1)
        /\ postRequests[k].end = loaded.last_post_id + 1 + 100 * k
        /\ postRequests[k].start >= loaded.last_post_id + 1

C1_Witness ==
    /\ loaded.last_post_id = 250
    /\ Len(postRequests) >= 3
    /\ postRequests[3].start = 451

\* C2: within a run no step lowers last_post_id, whatever the windows return
\* and in whatever order the requests in flight complete
C2_PostCursorMonotone ==
    [][phase = "running" => state'.last_post_id >= state.last_post_id]_vars

\* the newer of two windows in flight has completed before the older one,
\* after an earlier window advanced the cursor
C2_Witness ==
    /\ Len(in_progress) = 2
    /\ in_progress[1].result = Pending
    /\ in_progress[2].result.tag = "Ok"
    /\ in_progress[2].result.count > 0
    /\ state.last_post_id > loaded.last_post_id

\* C3: within a run no step lowers last_tag_id, for every page the remote can
\* return, a page with zero tags included
C3_TagCursorMonotone ==
    [][phase = "running" => state'.last_tag_id >= state.last_tag_id]_vars

\* C4: handling a failed tag page appends TagFailed(after_id of that request)
\* to the errors, leaves last_tag_id and the tag log alone and ends the
\* stream; an ended stream issues no further request and changes nothing
C4_TagFaultPolicy ==
    [][ /\ (tagPc = "wait" /\ tagResponse.tag = "Err" /\ tagPc' # tagPc) =>
              /\ state'.errors =
                     Append(state.errors, <<"Tag", tagRequests[Len(tagRequests)]>>)
              /\ state'.last_tag_id = state.last_tag_id
              /\ state'.last_post_id = state.last_post_id
              /\ tagLog' = tagLog
              /\ tagPc' = "ended"
        /\ tagPc = "ended" =>
              /\ tagPc' = "ended"
              /\ tagRequests' = tagRequests
              /\ tagLog' = tagLog
              /\ state'.last_tag_id = state.last_tag_id ]_vars

\* the second tag request failed after a first page that had tags
C4_Witness ==
    /\ tagPc = "ended"
    /\ Len(tagRequests) = 2
    /\ tagLog # <<>>
    /\ state.errors = Append(loaded.errors, <<"Tag", tagRequests[2]>>)

\* the post stream has something left to do: a range to issue, a request in
\* flight, a result to process or a page to write (or the model's last window
\* is done)
PostCanProceed ==
    \/ ENABLED PostIssue
    \/ ENABLED PostComplete
    \/ ENABLED PostProcess
    \/ ENABLED PostWrite
    \/ (issued = MaxWindows /\ in_progress = <<>>)

\* C5: handling a failed window appends exactly its range to the errors and
\* leaves last_post_id and the post log alone, and the stream carries on with
\* the next windows however many windows failed
C5_PostFaultPolicy ==
    /\ [][ (PostDelivered /\ current'.result.tag = "Err") =>
              /\ \E k \in DOMAIN postRequests : postRequests[k] = current'.id_range
              /\ state'.errors =
                     Append(state.errors,
                            <<"Post", current'.id_range.start, current'.id_range.end>>)
              /\ state'.last_post_id = state.last_post_id
              /\ state'.last_tag_id = state.last_tag_id
              /\ postLog' = postLog
              /\ postPc' = "poll" ]_vars
    /\ []((phase = "running" /\ postPc # "init") => PostCanProceed)

\* two windows failed and the one after them is being written
C5_Witness ==
    /\ postPc = "write"
    /\ Len(state.errors) = Len(loaded.errors) + 2
    /\ state.errors[Len(state.errors)][1] = "Post"
    /\ state.errors[Len(state.errors) - 1][1] = "Post"
    /\ current.id_range.start = loaded.last_post_id + 201

\* C6: handling a window whose page reports zero records leaves the
\* checkpoint in memory and on disk and the post log unchanged
C6_EmptyWindowNoProgress ==
    [][ (PostDelivered /\ current'.result.tag = "Ok" /\ current'.result.count = 0) =>
           /\ state' = state
           /\ postLog' = postLog
           /\ file' = file
           /\ postPc' = "poll" ]_vars

\* an empty window was handled after an earlier window advanced the cursor
C6_Witness ==
    /\ postPc = "poll"
    /\ current.result.tag = "Ok"
    /\ current.result.count = 0
    /\ current.id_range.start > loaded.last_post_id + 1
    /\ state.last_post_id > loaded.last_post_id

\* C7: handling a window whose page has records with maximum id M above the
\* cursor sets last_post_id to M, and a save writes the last_post_id it finds
C7_CursorIsPageMax ==
    [][ /\ (/\ PostDelivered
            /\ current'.result.tag = "Ok"
            /\ Len(current'.result.posts) >= 1
            /\ \E m \in Range(current'.result.posts) :
                   IsMax(m, current'.result.posts) /\ m > state.last_post_id) =>
               IsMax(state'.last_post_id, current'.result.posts)
        /\ Saved =>
               /\ file'.kind = "valid"
               /\ file'.state.last_post_id = state.last_post_id ]_vars

\* a page of two records, the maximum (40 above the window's start) first,
\* was the last update before the save
C7_Witness ==
    /\ phase = "exited"
    /\ Len(current.result.posts) = 2
    /\ postPc = "write"
    /\ file.state.last_post_id = current.id_range.start + 40
    /\ file.state.last_post_id > loaded.last_post_id

\* C8 as stated: a missing and a corrupt state.json both load as the zero
\* state and main goes on to run the streams
C8_LoadNeverFatal ==
    [][ (phase = "boot" /\ file.kind \in {"missing", "corrupt"}) =>
           /\ phase' = "running"
           /\ state' = [last_post_id |-> 0, last_tag_id |-> 0, errors |-> <<>>] ]_vars

\* C8 amended: a missing state.json loads as the zero state and main goes on
\* to run the streams; a corrupt one makes main stop before any stream
\* starts, with state.json left as it was
C8_LoadMissingNotFatal ==
    /\ [][ phase = "boot" =>
             /\ file.kind = "missing" =>
                   /\ phase' = "running"
                   /\ state' = [last_post_id |-> 0, last_tag_id |-> 0, errors |-> <<>>]
             /\ file.kind = "corrupt" =>
                   /\ phase' = "aborted"
                   /\ file' = file ]_vars
    /\ [](phase = "aborted" =>
             /\ file.kind = "corrupt"
             /\ postRequests = <<>>
             /\ tagRequests = <<>>
             /\ saves = 0)

\* state.json was missing and both streams have sent a request
C8_Witness ==
    /\ file.kind = "missing"
    /\ phase = "running"
    /\ postRequests # <<>>
    /\ tagRequests # <<>>

\* C9: state.json is written only by the save of the select! branch that
\* completes first (the tag stream ended, or the interrupt), once, with the
\* ScrapeState of that moment; afterwards nothing changes
C9_SingleSave ==
    /\ [][ /\ (file' # file \/ saves' # saves) =>
                 /\ Saved
                 /\ saves = 0
                 /\ saves' = 1
                 /\ file' = [kind |-> "valid", state |-> state]
                 /\ state' = state
                 /\ \/ winner' = "tag" /\ tagPc = "ended"
                    \/ winner' = "ctrl_c"
           /\ Saved => saves' = 1
           /\ phase = "exited" =>
                 /\ state' = state
                 /\ file' = file
                 /\ postLog' = postLog
                 /\ tagLog' = tagLog ]_vars
    /\ [](phase = "running" => saves = 0)
    /\ [](phase = "exited" => saves = 1)

\* the tag stream ended first while a post window was in flight, and the
\* save wrote a state that differs from the loaded one
C9_Witness ==
    /\ phase = "exited"
    /\ winner = "tag"
    /\ in_progress # <<>>
    /\ postLog # <<>>
    /\ file.state # loaded

\* C10: a search that names a tag absent from tag_str_to_id yields nothing
C10_UnknownNameYieldsNothing ==
    [][ (/\ index' = index
         /\ <<query', found'>> # <<query, found>>
         /\ \E i \in DOMAIN query' : query'[i] \notin DOMAIN index.tag_str_to_id) =>
           found'.posts = <<>> ]_vars

----------------------------------------------------------------------------
(* Properties of the index *)

\* the step is a search, an insert_post, an insert_tag
Searched == index' = index /\ last' = last /\ <<query', found'>> # <<query, found>>

InsertedPost == last'.op = "post" /\ ops' = ops + 1

InsertedTag == last'.op = "tag" /\ ops' = ops + 1

\* a tag's bitset (empty when the tag has none) and its cardinality counter
Bitset(idx, t) == IF t \in DOMAIN idx.tag_id_to_post_id THEN idx.tag_id_to_post_id[t] ELSE {}

Counter(idx, t) == IF t \in DOMAIN idx.tag_id_freq THEN idx.tag_id_freq[t] ELSE 0

KnownTagIds(idx) == TagIds \cup DOMAIN idx.tag_id_to_post_id \cup DOMAIN idx.tag_id_freq

AllResolve(idx, names) == \A i \in DOMAIN names : names[i] \in DOMAIN idx.tag_str_to_id

\* the post ids that are in the bitset of every requested tag
Intersection(idx, names) ==
    {p \in UNION {Bitset(idx, t) : t \in KnownTagIds(idx)} :
        \A i \in DOMAIN names : p \in Bitset(idx, idx.tag_str_to_id[names[i]])}

YieldedIds(f) == {f.posts[i].id : i \in DOMAIN f.posts}

\* C11: a search for a non-empty list of names that all resolve yields the
\* summaries of exactly the post ids in the intersection of the requested
\* tags' bitsets, whatever the order of the names
C11_QueryCorrectness ==
    [][ (Searched /\ query' # <<>> /\ AllResolve(index, query')) =>
           YieldedIds(found') = Intersection(index, query') ]_vars

\* cat is on posts 1 and 2, dog on post 1; the search for both yields post 1
C11_Witness ==
    /\ query = <<"cat", "dog">>
    /\ AllResolve(index, query)
    /\ index.tag_str_to_id["cat"] # index.tag_str_to_id["dog"]
    /\ Bitset(index, index.tag_str_to_id["cat"]) = {1, 2}
    /\ Bitset(index, index.tag_str_to_id["dog"]) = {1}
    /\ found = [some |-> TRUE, posts |-> <<[id |-> 1]>>]

\* C12: an insert_post raises a tag's counter by one exactly when the post id
\* is new to that tag's bitset, and inserting the same post again right away
\* changes no bitset and no counter
C12_IdempotentInsertion ==
    [][ InsertedPost =>
           /\ \A t \in KnownTagIds(index') :
                  Counter(index', t) - Counter(index, t) =
                      Cardinality(Bitset(index', t) \ Bitset(index, t))
           /\ last'.again =>
                  /\ index'.tag_id_to_post_id = index.tag_id_to_post_id
                  /\ index'.tag_id_freq = index.tag_id_freq ]_vars

\* a post that names cat twice was inserted twice in a row; cat counts it once
C12_Witness ==
    /\ last.op = "post"
    /\ last.again
    /\ last.tags = <<"cat", "Cat">>
    /\ "cat" \in DOMAIN index.tag_str_to_id
    /\ Bitset(index, index.tag_str_to_id["cat"]) = {last.id}
    /\ Counter(index, index.tag_str_to_id["cat"]) = 1

\* the tag ids the names of a post resolve to, case-folded, in an index
ResolvedIds(idx, names) ==
    {idx.tag_str_to_id[to_lowercase(names[i])] :
        i \in {j \in DOMAIN names : to_lowercase(names[j]) \in DOMAIN idx.tag_str_to_id}}

\* C13: insert_post adds the post id to the bitsets of exactly the tag ids
\* its case-folded names resolve to at that moment and touches no other
\* bitset; insert_tag changes no bitset, counter or summary
C13_OrderingDependency ==
    [][ /\ InsertedPost =>
              /\ \A t \in KnownTagIds(index') :
                     Bitset(index', t) =
                         Bitset(index, t) \cup
                             (IF t \in ResolvedIds(index, last'.tags) THEN {last'.id} ELSE {})
              /\ DOMAIN index'.tag_id_to_post_id =
                     DOMAIN index.tag_id_to_post_id \cup ResolvedIds(index, last'.tags)
              /\ index'.tag_str_to_id = index.tag_str_to_id
        /\ InsertedTag =>
              /\ index'.tag_id_to_post_id = index.tag_id_to_post_id
              /\ index'.tag_id_freq = index.tag_id_freq
              /\ index'.post_id_to_post = index.post_id_to_post ]_vars

\* a post tagged Cat and dog was inserted when only cat was in the dictionary
C13_Witness ==
    /\ last.op = "post"
    /\ last.tags = <<"Cat", "dog">>
    /\ "cat" \in DOMAIN index.tag_str_to_id
    /\ "dog" \notin DOMAIN index.tag_str_to_id
    /\ DOMAIN index.tag_id_to_post_id = {index.tag_str_to_id["cat"]}
    /\ Bitset(index, index.tag_str_to_id["cat"]) = {last.id}
    /\ last.id \in DOMAIN index.post_id_to_post

----------------------------------------------------------------------------
(* Retrying request layer *)

\* an attempt of the post request at position i of the queue ended
PostAttempted(i) ==
    /\ Len(in_progress') = Len(in_progress)
    /\ i \in DOMAIN in_progress
    /\ in_progress'[i] # in_progress[i]

\* an attempt of the tag request ended
TagAttempted ==
    /\ tagPc = "wait" /\ tagPc' = "wait"
    /\ <<tagResponse', tagFailures'>> # <<tagResponse, tagFailures>>

\* C14: a failed attempt of a post or tag request is retried, whatever its
\* class, and shows nothing to the caller; the wrapper returns a whole page of
\* the request as soon as an attempt succeeds, returns a failure only when the
\* backoff policy is exhausted, and the caller is handed only returned results
C14_RetryingRequestLayer ==
    [][ /\ \A i \in 1..parallel_requests :
              PostAttempted(i) =>
                  /\ in_progress[i].result = Pending
                  /\ in_progress'[i].id_range = in_progress[i].id_range
                  /\ \/ /\ in_progress'[i].result \in PostPages(in_progress[i].id_range)
                        /\ in_progress'[i].result.count =
                               Len(in_progress'[i].result.posts)
                     \/ /\ in_progress'[i].result = Pending
                        /\ in_progress'[i].failures = in_progress[i].failures + 1
                        /\ in_progress'[i].failures < MaxAttempts
                     \/ /\ in_progress'[i].result = Failed
                        /\ in_progress[i].failures + 1 = MaxAttempts
        /\ TagAttempted =>
              /\ tagResponse = TagPending
              /\ \/ tagResponse' \in TagPages(after_id)
                 \/ /\ tagResponse' = TagPending
                    /\ tagFailures' = tagFailures + 1
                    /\ tagFailures' < MaxAttempts
                 \/ /\ tagResponse' = TagFailed
                    /\ tagFailures + 1 = MaxAttempts
        /\ PostDelivered => current'.result \in PostOutcomes(current'.id_range)
        /\ tagPc = "wait" /\ tagPc' # "wait" => tagResponse \in TagOutcomes(after_id) ]_vars

\* a post request returned a page after a failed attempt while the other one
\* is being retried, and the tag request failed for good
C14_Witness ==
    /\ Len(in_progress) = 2
    /\ in_progress[1].result = Pending
    /\ in_progress[1].failures = MaxAttempts - 1
    /\ in_progress[2].result \in PostPages(in_progress[2].id_range)
    /\ tagResponse = TagFailed
    /\ tagPc = "wait"

----------------------------------------------------------------------------
(* Checkpoint store *)

\* the StateManager was called
Called(op) == call'.n = call.n + 1 /\ call'.op = op

\* C15 as stated: update_last_post_id and update_last_tag_id are
\* compare-and-advance, a value below the stored cursor leaves the cursor as
\* it is and a value above it becomes the cursor
C15_CompareAndAdvance ==
    [][ /\ Called("update_last_post_id") =>
              state'.last_post_id =
                  IF call'.value < state.last_post_id THEN state.last_post_id
                                                      ELSE call'.value
        /\ Called("update_last_tag_id") =>
              state'.last_tag_id =
                  IF call'.value < state.last_tag_id THEN state.last_tag_id
                                                     ELSE call'.value ]_vars

\* C15: update_last_post_id and update_last_tag_id set their cursor to the
\* value they are called with, lower or higher than the stored one, and
\* change nothing else of the checkpoint
C15_CursorOverwrite ==
    [][ /\ Called("update_last_post_id") =>
              state' = [state EXCEPT !.last_post_id = call'.value]
        /\ Called("update_last_tag_id") =>
              state' = [state EXCEPT !.last_tag_id = call'.value] ]_vars

\* both cursors were called with a value below the loaded one and hold it
C15_Witness ==
    /\ call.n = 2
    /\ call.op = "update_last_tag_id"
    /\ call.value = 0
    /\ state.last_tag_id = 0
    /\ loaded.last_tag_id = 7
    /\ state.last_post_id = 7
    /\ loaded.last_post_id = 250

----------------------------------------------------------------------------
(* Cursor and output *)

\* C16: wherever the run can be interrupted and the checkpoint saved, and in
\* the checkpoint saved, a cursor that was set to the maximum id of a page
\* has the records of that page in the log of its stream already
C16_AtLeastOnce ==
    /\ state.last_post_id # loaded.last_post_id =>
           state.last_post_id \in Range(postLog)
    /\ state.last_tag_id \notin {loaded.last_tag_id, 0} =>
           state.last_tag_id \in Range(tagLog)

----------------------------------------------------------------------------
(* Order of the post windows *)

\* the newer of two windows in flight has returned, the older one has not
NewerFirst ==
    /\ phase = "running"
    /\ postPc = "poll"
    /\ Len(in_progress) = 2
    /\ in_progress[1].id_range.start < in_progress[2].id_range.start
    /\ in_progress[1].result = Pending
    /\ in_progress[2].result # Pending

\* C17 as stated, at its first step: when the newer of two windows in flight
\* has finished its request before the older one, its cursor update can be
\* applied while the older one is still in flight (and the older one's after)
C17_OutOfOrderHazard == NewerFirst => ENABLED PostProcess

\* C17: the windows are handed to process_response in the order they were
\* issued, whatever the order their requests finish in, so no cursor update
\* lowers the post cursor and no checkpoint saved holds a regressed cursor
C17_InOrderDelivery ==
    [][ /\ PostDelivered =>
              /\ current' = in_progress[1]
              /\ \A i \in DOMAIN in_progress :
                     current'.id_range.start <= in_progress[i].id_range.start
              /\ state'.last_post_id >= state.last_post_id
        /\ Saved =>
              /\ file'.state.last_post_id = state.last_post_id
              /\ file'.state.last_post_id >= loaded.last_post_id ]_vars

\* the newer window has returned a page while the older one is being retried,
\* and waits for it
C17_Witness ==
    /\ NewerFirst
    /\ in_progress[1].failures > 0
    /\ in_progress[2].result.tag = "Ok"
    /\ in_progress[2].result.count > 0
    /\ ~ ENABLED PostProcess

\* a request for a new window was issued
PostIssued == Len(postRequests') = Len(postRequests) + 1

\* C18: at most 2 windows have a request issued and not yet handed to
\* process_response, and a window is issued only when fewer than 2 have
C18_BoundedPostConcurrency ==
    [][ /\ Len(in_progress') <= 2
        /\ PostIssued =>
              /\ Len(in_progress) < 2
              /\ in_progress' = Append(in_progress, in_progress'[Len(in_progress')])
              /\ in_progress'[Len(in_progress')].id_range = postRequests'[Len(postRequests')]
        /\ Len(in_progress') > Len(in_progress) => PostIssued ]_vars

\* the third window was issued into the place the first one left, and two
\* requests are outstanding again
C18_Witness ==
    /\ issued = 3
    /\ Len(in_progress) = 2
    /\ in_progress[1].id_range = postRequests[2]
    /\ in_progress[2].id_range = postRequests[3]
    /\ in_progress[2].result = Pending

----------------------------------------------------------------------------
(* Tag stream *)

\* a tag request was issued
TagIssued == Len(tagRequests') = Len(tagRequests) + 1

\* a page of tags was handled
TagPageHandled == tagPc = "wait" /\ tagPc' = "write"

\* C19: a tag request is issued with a rate-limiter token and no other
\* request in flight, the first one with the loaded last_tag_id as after_id;
\* a successful page sets last_tag_id to the maximum tag id of the page, and
\* the next request uses that value as after_id
C19_TagSequencing ==
    [][ /\ TagIssued =>
              /\ tagPc = "request"
              /\ tagPc' = "wait"
              /\ Len(tagRequests) > 0 => tagResponse # TagPending
              /\ tagRequests'[Len(tagRequests')] =
                     IF tagRequests = <<>> THEN loaded.last_tag_id
                                           ELSE state.last_tag_id
        /\ tagPc' = "request" /\ tagPc # "request" => tagPc = "limiter"
        /\ TagPageHandled =>
              /\ tagResponse \in TagPages(tagRequests[Len(tagRequests)])
              /\ IsMax(state'.last_tag_id, tagResponse.tags)
        /\ tagPc = "write" /\ tagPc' # "write" =>
              IsMax(after_id', tagResponse.tags) ]_vars

----------------------------------------------------------------------------
(* Output logs *)

\* the block a page makes in its log: its records, last one first
Block(records) ==
    [i \in 1..Len(records) |-> records[Len(records) + 1 - i]]

\* C20: the records of a processed page are appended to the log of its
\* stream as one block, in the reverse of the order of the page; a block is
\* complete before the next window is handed to process_response, so blocks
\* are not interleaved and follow the order the windows were processed in
C20_LogAppendOrder ==
    [][ /\ postLog' # postLog =>
              /\ postPc = "write"
              /\ current.result.tag = "Ok"
              /\ postLog' = postLog \o Block(current.result.posts)
              /\ postPc' = "poll"
        /\ PostDelivered => postPc = "poll" /\ postLog' = postLog
        /\ postPc # "write" /\ postPc' = "write" =>
              PostDelivered /\ current'.result.posts # <<>>
        /\ tagLog' # tagLog =>
              /\ tagPc = "write"
              /\ tagResponse.tag = "Ok"
              /\ tagLog' = tagLog \o Block(tagResponse.tags)
              /\ tagPc' = "limiter" ]_vars

\* two post windows and a tag page have been written
C20_Witness ==
    /\ Len(postLog) = 4
    /\ postLog[1] < postLog[2]
    /\ postLog[2] < postLog[3]
    /\ postLog[3] < postLog[4]
    /\ Len(tagLog) = 2
    /\ tagLog[1] > tagLog[2]

----------------------------------------------------------------------------
(* Index bookkeeping *)

\* C21: after any inserts every tag id's tag_id_freq equals the number of
\* post ids in its bitset, and a tag id has a tag_id_freq entry exactly when
\* it has a bitset
C21_CardinalityConsistency ==
    /\ DOMAIN index.tag_id_freq = DOMAIN index.tag_id_to_post_id
    /\ \A t \in DOMAIN index.tag_id_to_post_id :
           index.tag_id_freq[t] = Cardinality(index.tag_id_to_post_id[t])

\* cat and dog name the same tag id, a post carrying both was counted once
\* and a second post brought the tag to two
C21_Witness ==
    /\ ops = MaxOps
    /\ DOMAIN index.tag_str_to_id = {"cat", "dog"}
    /\ index.tag_str_to_id["cat"] = index.tag_str_to_id["dog"]
    /\ DOMAIN index.tag_id_to_post_id = {index.tag_str_to_id["cat"]}
    /\ index.tag_id_to_post_id[index.tag_str_to_id["cat"]] = {1, 2}
    /\ index.tag_id_freq[index.tag_str_to_id["cat"]] = 2
    /\ last.op = "post"
    /\ last.tags = <<"cat", "dog">>

----------------------------------------------------------------------------
(* The Mutex around the ScrapeState *)

\* the tasks that are inside a StateManager method
Inside == {p \in Tasks : inside[p].op # "none"}

\* task p left the StateManager method it was in
Left(p) == inside[p].op # "none" /\ inside'[p].op = "none"

\* C22: at most one of the post stream, the tag stream and the save is inside
\* a StateManager method at a time; a method changes the state as if it ran
\* alone, and save_state writes the state as it is when it runs, with every
\* update and append made before it
C22_CheckpointMutualExclusion ==
    /\ [](/\ Cardinality(Inside) <= 1
          /\ lock = "free" <=> Inside = {}
          /\ lock # "free" => Inside = {lock})
    /\ [][ /\ \A p \in Tasks : Left(p) =>
                  /\ inside[p].op = "update_last_post_id" =>
                         state' = [state EXCEPT !.last_post_id = inside[p].value]
                  /\ inside[p].op = "update_last_tag_id" =>
                         state' = [state EXCEPT !.last_tag_id = inside[p].value]
                  /\ inside[p].op = "append_error" =>
                         /\ state' = [state EXCEPT !.errors = Append(@, ErrorOf(p))]
                  /\ inside[p].op \in {"last_post_id", "last_tag_id"} => state' = state
                  /\ inside[p].op = "save_state" =>
                         /\ state' = state
                         /\ file' = ValidFile(state)
          /\ state' # state => \E p \in Tasks : Left(p)
          /\ file' # file => Left("main") ]_vars

\* the checkpoint was saved after a cursor update and an error append of the
\* two streams, and holds both
C22_Witness ==
    /\ phase = "exited"
    /\ call.op = "save_state"
    /\ call.n = 3
    /\ file = ValidFile(state)
    /\ state.last_post_id = 300
    /\ state.errors = Append(loaded.errors, TagError(7))

----------------------------------------------------------------------------
(* Error log *)

IsPrefix(a, b) == Len(a) <= Len(b) /\ SubSeq(b, 1, Len(a)) = a

\* C23: no step of a run shortens the error log or changes an entry it
\* holds, and the errors loaded at startup are a prefix of the errors saved
\* at shutdown
C23_ErrorLogAppendOnly ==
    [][ /\ IsPrefix(state.errors, state'.errors)
        /\ Len(state'.errors) <= Len(state.errors) + 1
        /\ phase' = "running" => IsPrefix(loaded'.errors, state'.errors)
        /\ Saved =>
              /\ IsPrefix(loaded.errors, file'.state.errors)
              /\ file'.state.errors = state.errors ]_vars

\* a run that loaded one error saved it followed by a failed post window and
\* the failed tag page
C23_Witness ==
    /\ phase = "exited"
    /\ Len(loaded.errors) = 1
    /\ Len(file.state.errors) = 3
    /\ file.state.errors[1] = loaded.errors[1]
    /\ file.state.errors[2][1] = "Post"
    /\ file.state.errors[3][1] = "Tag"

----------------------------------------------------------------------------
(* End of the run *)

\* C24: whatever the windows return, the post stream has a next step (up to
\* the model's last window) and PostScraper::run does not return, so the
\* save is triggered by the tag stream or by the interrupt only
C24_PostStreamNeverEnds ==
    /\ winner \in {"none", "tag", "ctrl_c"}
    /\ phase = "exited" => winner \in {"tag", "ctrl_c"}
    /\ phase = "running" /\ postPc # "init" =>
           \/ ENABLED PostIssue
           \/ ENABLED PostComplete
           \/ ENABLED PostProcess
           \/ ENABLED PostWrite
           \/ (issued = MaxWindows /\ in_progress = <<>> /\ postPc = "poll")

\* a window with records, an empty one and a failed one have been processed
\* and the run goes on
C24_Witness ==
    /\ phase = "running"
    /\ issued = 3
    /\ Len(in_progress) <= 1
    /\ postPc = "poll"
    /\ Len(postLog) = 2
    /\ current.result.tag = "Ok"
    /\ current.result.count = 0
    /\ \E i \in DOMAIN state.errors : state.errors[i][1] = "Post"

\* C25: when the tag stream has ended on a failed page the race can be won
\* at once; the save it triggers holds the TagFailed entry of that page, and
\* after the save no post window is issued, completed, processed or written,
\* whether or not a post window failed
C25_TagFailureEndsRun ==
    /\ [](phase = "running" /\ tagPc = "ended" => ENABLED Finished)
    /\ [][ /\ Saved /\ winner' = "tag" =>
                  /\ tagPc = "ended"
                  /\ tagResponse = TagFailed
                  /\ file' = ValidFile(state)
                  /\ \E i \in DOMAIN state.errors :
                         state.errors[i] = <<"Tag", tagRequests[Len(tagRequests)]>>
          /\ phase = "exited" =>
                  /\ postVars' = postVars
                  /\ tagVars' = tagVars
                  /\ state' = state
                  /\ file' = file ]_vars

\* the tag stream won the race with two post requests in flight, a page of
\* posts written and no post window failed
C25_Witness ==
    /\ phase = "exited"
    /\ winner = "tag"
    /\ Len(in_progress) = 2
    /\ postLog # <<>>
    /\ \A i \in DOMAIN file.state.errors : file.state.errors[i][1] = "Tag"
    /\ file.state.errors # <<>>

----------------------------------------------------------------------------
(* Cursor separation *)

\* a step of the post stream, and a step of the tag stream
PostStep == postVars' # postVars

TagStep == tagVars' # tagVars

\* C26: in a run no step of the post stream changes last_tag_id, no step of
\* the tag stream changes last_post_id and an append to the errors changes
\* neither; last_post_id is written only when a page of posts is processed
\* and last_tag_id only when a page of tags is
C26_CursorSeparation ==
    [][ phase = "running" =>
          /\ PostStep => state'.last_tag_id = state.last_tag_id
          /\ TagStep => state'.last_post_id = state.last_post_id
          /\ state'.errors # state.errors =>
                 /\ state'.last_post_id = state.last_post_id
                 /\ state'.last_tag_id = state.last_tag_id
          /\ state'.last_post_id # state.last_post_id =>
                 /\ PostDelivered
                 /\ current'.result.tag = "Ok"
                 /\ current'.result.count # 0
          /\ state'.last_tag_id # state.last_tag_id =>
                 /\ TagPageHandled
                 /\ tagResponse.tag = "Ok" ]_vars

\* both streams have moved their cursor and logged a failure
C26_Witness ==
    /\ phase = "running"
    /\ state.last_post_id > loaded.last_post_id
    /\ state.last_tag_id > loaded.last_tag_id
    /\ \E i \in DOMAIN state.errors : state.errors[i][1] = "Tag"
    /\ \E i \in DOMAIN state.errors :
          i > Len(loaded.errors) /\ state.errors[i][1] = "Post"

----------------------------------------------------------------------------
(* Summaries *)

\* the tag ids the names of a query resolve to, as spelt
QueryTagIds(idx, names) ==
    {idx.tag_str_to_id[names[i]] :
        i \in {j \in DOMAIN names : names[j] \in DOMAIN idx.tag_str_to_id}}

\* the post ids in the bitset of every tag id of the query
FinalIntersection(idx, names) ==
    {p \in UNION {Bitset(idx, t) : t \in KnownTagIds(idx)} :
        \A t \in QueryTagIds(idx, names) : p \in Bitset(idx, t)}

\* C27: every post id in a tag's bitset has a post_id_to_post entry, and a
\* search that yields does so with one summary per post id of its final
\* intersection
C27_SummaryCoverage ==
    /\ [](\A t \in DOMAIN index.tag_id_to_post_id :
             index.tag_id_to_post_id[t] \subseteq DOMAIN index.post_id_to_post)
    /\ [][ Searched /\ found'.some =>
              /\ YieldedIds(found') = FinalIntersection(index, query')
              /\ Len(found'.posts) = Cardinality(FinalIntersection(index, query'))
              /\ \A i \in DOMAIN found'.posts :
                     found'.posts[i] = index.post_id_to_post[found'.posts[i].id] ]_vars

\* posts 1 and 2 both carry cat and dog, and the search for both yields two
\* summaries
C27_Witness ==
    /\ query = <<"cat", "dog">>
    /\ found.some
    /\ Len(found.posts) = 2
    /\ found.posts[1].id = 1
    /\ found.posts[2].id = 2
    /\ {"cat", "dog"} \subseteq DOMAIN index.tag_str_to_id
    /\ index.tag_str_to_id["cat"] # index.tag_str_to_id["dog"]

====
